---- MODULE Spec2Model ----
(***************************************************************************)
(* making_bar_charts(): read data/vulnerable.csv, keep the rows of 1997,   *)
(* count countries per continent, draw a bar chart with text labels, an    *)
(* axis category order and per-bar colours, show it and write it to HTML.  *)
(* Continents and countries are numbered by the alphabetical rank of their *)
(* names, so that < on the numbers is the order pandas sorts the names in. *)
(***************************************************************************)
EXTENDS Integers, Sequences, FiniteSets, TLC

\* ------------------------------------------------------------------ bounds
MaxRows == 3            \* rows of a general input table
NumContinents == 2      \* continent names of a general input table
NumCountries == 1       \* country names of a general input table
MaxWideRows == 6        \* rows of a many-continent input table
NumWideContinents == 6  \* continent names of a many-continent input table

\* ------------------------------------------------------- program constants
NaN == 0                \* a missing cell of the csv (pandas NaN)
TargetYear == 1997
ColumnNames == {"year", "continent", "country"}
HighlightColour == "#003d59"
NeutralColour == "lightgrey"
NoColour == ""          \* a bar the marker_color list does not reach
NoText == <<>>          \* a bar the text list does not reach

VARIABLES
    pc,                 \* index in Statements of the next statement to run
    err,                \* "" or the statement whose exception ended the run
    csv,                \* content of data/vulnerable.csv
    fileExists,         \* data/vulnerable.csv can be opened
    vulnerable, vuln_filter, pivot_vuln_filter, str_item_counts, vuln_plot,
    shown,              \* show() returned
    display,            \* the bars show() rendered
    written,            \* write_html() returned
    html                \* the bars write_html() rendered

vars == <<pc, err, csv, fileExists, vulnerable, vuln_filter, pivot_vuln_filter,
          str_item_counts, vuln_plot, shown, display, written, html>>

\* --------------------------------------------------------------- helpers
Range(s) == {s[i] : i \in DOMAIN s}

Years == {TargetYear, TargetYear + 1}

EmptyFrame == [columns |-> <<>>, rows |-> <<>>]

HasColumn(df, c) == c \in Range(df.columns)

\* str(i) of a non-negative integer, as its sequence of decimal digits
Digits == <<"0", "1", "2", "3", "4", "5", "6", "7", "8", "9">>

RECURSIVE Str(_)
Str(n) == IF n < 10 THEN <<Digits[n + 1]>>
          ELSE Append(Str(n \div 10), Digits[(n % 10) + 1])

\* ----------------------------------------------------------------- pandas
\* vulnerable[vulnerable["year"].isin([1997])]
IsinFilter(df, years) ==
    [df EXCEPT !.rows = SelectSeq(df.rows, LAMBDA r : r.year \in years)]

\* ascending sequence of a finite set of integers (groupby sorts its keys)
RECURSIVE SortedKeys(_)
SortedKeys(S) ==
    IF S = {} THEN <<>>
    ELSE LET m == CHOOSE x \in S : \A y \in S : x <= y
         IN <<m>> \o SortedKeys(S \ {m})

\* "count" aggregation of one group: the non-missing cells of the column
CountCells(rows, key) ==
    Cardinality({i \in DOMAIN rows :
                    rows[i].continent = key /\ rows[i].country # NaN})

\* groupby("continent").agg({"country": "count"}).reset_index()
\*     .rename(columns={"country": "count"})
GroupbyCount(df) ==
    LET keys == SortedKeys({r.continent : r \in Range(df.rows)} \ {NaN})
    IN [k \in DOMAIN keys |->
            [continent |-> keys[k], count |-> CountCells(df.rows, keys[k])]]

\* the statement raises KeyError when a column it names is absent
FilterRaises(df) == ~HasColumn(df, "year")

AggregateRaisesOnEmpty(df) ==
    \/ ~HasColumn(df, "continent")
    \/ ~HasColumn(df, "country")
    \/ df.rows = <<>>

AggregateRaises(df) ==
    ~HasColumn(df, "continent") \/ ~HasColumn(df, "country")

\* read_csv raises when the file is absent or has no columns at all
ReadCsvRaises(exists, file) == ~exists \/ file.columns = <<>>

\* df.iloc[0:, j] : the cells of the column at 0-based position j
Iloc(df, j) == [i \in DOMAIN df.rows |-> df.rows[i][df.columns[j + 1]]]

\* distinct non-missing values of a column, in order of first appearance
RECURSIVE Uniques(_)
Uniques(s) ==
    IF s = <<>> THEN <<>>
    ELSE LET n == Len(s)
             front == Uniques(SubSeq(s, 1, n - 1))
         IN IF s[n] = NaN \/ s[n] \in Range(front) THEN front
            ELSE Append(front, s[n])

Occurrences(s, v) == Cardinality({i \in DOMAIN s : s[i] = v})

\* stable insertion of x into a sequence of integers sorted largest first
RECURSIVE InsertDesc(_, _)
InsertDesc(s, x) ==
    IF s = <<>> THEN <<x>>
    ELSE IF s[Len(s)] >= x THEN Append(s, x)
    ELSE Append(InsertDesc(SubSeq(s, 1, Len(s) - 1), x), s[Len(s)])

RECURSIVE SortDesc(_)
SortDesc(s) ==
    IF s = <<>> THEN <<>>
    ELSE InsertDesc(SortDesc(SubSeq(s, 1, Len(s) - 1)), s[Len(s)])

\* column.value_counts(): the counts in the order unsorted value_counts
\* would give (first appearance)
ValueCountsUnsorted(column) ==
    LET u == Uniques(column)
    IN [k \in DOMAIN u |-> Occurrences(column, u[k])]

\* column.value_counts(), iterated: the counts, largest first
ValueCounts(column) ==
    LET u == Uniques(column)
    IN SortDesc([k \in DOMAIN u |-> Occurrences(column, u[k])])

\* [str(i) for i in item_counts]
StrList(counts) == [k \in DOMAIN counts |-> Str(counts[k])]

\* ----------------------------------------------------------------- plotly
EmptyLayout == [title |-> "", annotations |-> <<>>, categoryorder |-> "trace"]

NoFigure == [data |-> <<>>, layout |-> EmptyLayout]

\* px.bar(frame, y="continent", x="count"): one trace holding every row of
\* the frame in the frame's order, no trace for a frame without rows
PxBar(frame) ==
    [data |-> IF frame = <<>> THEN <<>>
              ELSE << [y |-> [k \in DOMAIN frame |-> frame[k].continent],
                       x |-> [k \in DOMAIN frame |-> frame[k].count],
                       text |-> <<>>,
                       marker_color |-> <<>>] >>,
     layout |-> EmptyLayout]

Title == "Figure 1: Africa has the most countries by continent"

Annotations == << "Source: Pandemic Preparedness Toolkit",
                  "Note: Counts are based on boundaries in 1997." >>

\* colours = [...], top of the list first
coloursHighlightLast ==
    << NeutralColour, NeutralColour, NeutralColour, NeutralColour,
       HighlightColour >>

colours ==
    << HighlightColour, NeutralColour, NeutralColour, NeutralColour,
       NeutralColour >>

\* update_traces(...) applies the properties to every trace of the figure
UpdateTracesText(fig, text) ==
    [fig EXCEPT !.data = [t \in DOMAIN fig.data |->
                             [fig.data[t] EXCEPT !.text = text]]]

UpdateTracesColour(fig, cols) ==
    [fig EXCEPT !.data = [t \in DOMAIN fig.data |->
                             [fig.data[t] EXCEPT !.marker_color = cols]]]

\* the bars of a trace in data order: point k takes the k-th entry of the
\* text list and of the marker_color list, if the list is that long
TraceBars(t) ==
    [k \in DOMAIN t.y |->
        [continent |-> t.y[k],
         count |-> t.x[k],
         text |-> IF k <= Len(t.text) THEN t.text[k] ELSE NoText,
         colour |-> IF k <= Len(t.marker_color) THEN t.marker_color[k]
                    ELSE NoColour]]

\* stable insertion of bar b into bars sorted by ascending count
RECURSIVE InsertAsc(_, _)
InsertAsc(s, b) ==
    IF s = <<>> THEN <<b>>
    ELSE IF s[Len(s)].count <= b.count THEN Append(s, b)
    ELSE Append(InsertAsc(SubSeq(s, 1, Len(s) - 1), b), s[Len(s)])

\* yaxis categoryorder "total ascending": categories from the axis origin
\* outwards by ascending total
TotalAscendingKeepsTraceOrder(bars) == bars

RECURSIVE TotalAscending(_)
TotalAscending(bars) ==
    IF bars = <<>> THEN <<>>
    ELSE InsertAsc(TotalAscending(SubSeq(bars, 1, Len(bars) - 1)),
                   bars[Len(bars)])

\* the bars of the rendered chart, from the axis origin outwards
Render(fig) ==
    IF fig.data = <<>> THEN <<>>
    ELSE LET bars == TraceBars(fig.data[1])
         IN IF fig.layout.categoryorder = "total ascending"
            THEN TotalAscending(bars)
            ELSE bars

\* ------------------------------------------------------------ the function
\* the statements of making_bar_charts() in the order they run
StatementsWriteFirst ==
    << "read_csv", "filter", "aggregate", "labels", "bar", "layout", "text",
       "categoryorder", "colours", "write_html", "show" >>

Statements ==
    << "read_csv", "filter", "aggregate", "labels", "bar", "layout", "text",
       "categoryorder", "colours", "show", "write_html" >>

Done == Len(Statements) + 1
Failed == 0

At(stmt) == pc \in DOMAIN Statements /\ Statements[pc] = stmt

\* column layouts of the csv: any sequence of distinct column names
Layouts ==
    UNION { {s \in [1..n -> ColumnNames] :
                \A i, j \in 1..n : s[i] = s[j] => i = j} : n \in 0..3 }

RowValues ==
    [year : Years, continent : 0..NumContinents, country : 0..NumCountries]

\* a table of 1997 with one country per row, row i in continent f[i]
WideTable(f) ==
    [i \in DOMAIN f |->
        [year |-> TargetYear, continent |-> f[i], country |-> i]]

WideLayout == <<"country", "continent", "year">>

Init ==
    /\ pc = 1
    /\ err = ""
    /\ fileExists \in BOOLEAN
    /\ \/ \E c \in Layouts, n \in 0..MaxRows :
             \E t \in [1..n -> RowValues] :
                csv = [columns |-> c, rows |-> t]
       \/ \E n \in 0..MaxWideRows :
             \E f \in [1..n -> 1..NumWideContinents] :
                csv = [columns |-> WideLayout, rows |-> WideTable(f)]
    /\ vulnerable = EmptyFrame
    /\ vuln_filter = EmptyFrame
    /\ pivot_vuln_filter = <<>>
    /\ str_item_counts = <<>>
    /\ vuln_plot = NoFigure
    /\ shown = FALSE
    /\ display = <<>>
    /\ written = FALSE
    /\ html = <<>>

Raise == pc' = Failed /\ err' = Statements[pc]
Continue == pc' = pc + 1 /\ err' = err

\* line 7
ReadCsv ==
    /\ At("read_csv")
    /\ ~ReadCsvRaises(fileExists, csv)
    /\ vulnerable' = csv
    /\ Continue
    /\ UNCHANGED <<csv, fileExists, vuln_filter, pivot_vuln_filter,
                   str_item_counts, vuln_plot, shown, display, written, html>>

ReadCsvFails ==
    /\ At("read_csv")
    /\ ReadCsvRaises(fileExists, csv)
    /\ Raise
    /\ UNCHANGED <<csv, fileExists, vulnerable, vuln_filter, pivot_vuln_filter,
                   str_item_counts, vuln_plot, shown, display, written, html>>

\* line 10
Filter ==
    /\ At("filter")
    /\ ~FilterRaises(vulnerable)
    /\ vuln_filter' = IsinFilter(vulnerable, {TargetYear})
    /\ Continue
    /\ UNCHANGED <<csv, fileExists, vulnerable, pivot_vuln_filter,
                   str_item_counts, vuln_plot, shown, display, written, html>>

FilterFails ==
    /\ At("filter")
    /\ FilterRaises(vulnerable)
    /\ Raise
    /\ UNCHANGED <<csv, fileExists, vulnerable, vuln_filter, pivot_vuln_filter,
                   str_item_counts, vuln_plot, shown, display, written, html>>

\* lines 12-14
Aggregate ==
    /\ At("aggregate")
    /\ ~AggregateRaises(vuln_filter)
    /\ pivot_vuln_filter' = GroupbyCount(vuln_filter)
    /\ Continue
    /\ UNCHANGED <<csv, fileExists, vulnerable, vuln_filter,
                   str_item_counts, vuln_plot, shown, display, written, html>>

AggregateFails ==
    /\ At("aggregate")
    /\ AggregateRaises(vuln_filter)
    /\ Raise
    /\ UNCHANGED <<csv, fileExists, vulnerable, vuln_filter, pivot_vuln_filter,
                   str_item_counts, vuln_plot, shown, display, written, html>>

\* lines 17-19
Labels ==
    /\ At("labels")
    /\ str_item_counts' = StrList(ValueCounts(Iloc(vuln_filter, 1)))
    /\ Continue
    /\ UNCHANGED <<csv, fileExists, vulnerable, vuln_filter, pivot_vuln_filter,
                   vuln_plot, shown, display, written, html>>

\* lines 22-27
Bar ==
    /\ At("bar")
    /\ vuln_plot' = PxBar(pivot_vuln_filter)
    /\ Continue
    /\ UNCHANGED <<csv, fileExists, vulnerable, vuln_filter, pivot_vuln_filter,
                   str_item_counts, shown, display, written, html>>

\* lines 29-53
Layout ==
    /\ At("layout")
    /\ vuln_plot' = [vuln_plot EXCEPT !.layout.title = Title,
                                      !.layout.annotations = Annotations]
    /\ Continue
    /\ UNCHANGED <<csv, fileExists, vulnerable, vuln_filter, pivot_vuln_filter,
                   str_item_counts, shown, display, written, html>>

\* line 56
Text ==
    /\ At("text")
    /\ vuln_plot' = UpdateTracesText(vuln_plot, str_item_counts)
    /\ Continue
    /\ UNCHANGED <<csv, fileExists, vulnerable, vuln_filter, pivot_vuln_filter,
                   str_item_counts, shown, display, written, html>>

\* line 59
CategoryOrder ==
    /\ At("categoryorder")
    /\ vuln_plot' = [vuln_plot EXCEPT
                        !.layout.categoryorder = "total ascending"]
    /\ Continue
    /\ UNCHANGED <<csv, fileExists, vulnerable, vuln_filter, pivot_vuln_filter,
                   str_item_counts, shown, display, written, html>>

\* lines 62-63
Colours ==
    /\ At("colours")
    /\ vuln_plot' = UpdateTracesColour(vuln_plot, colours)
    /\ Continue
    /\ UNCHANGED <<csv, fileExists, vulnerable, vuln_filter, pivot_vuln_filter,
                   str_item_counts, shown, display, written, html>>

\* line 66
Show ==
    /\ At("show")
    /\ shown' = TRUE
    /\ display' = Render(vuln_plot)
    /\ Continue
    /\ UNCHANGED <<csv, fileExists, vulnerable, vuln_filter, pivot_vuln_filter,
                   str_item_counts, vuln_plot, written, html>>

\* line 66, no renderer available
ShowFails ==
    /\ At("show")
    /\ Raise
    /\ UNCHANGED <<csv, fileExists, vulnerable, vuln_filter, pivot_vuln_filter,
                   str_item_counts, vuln_plot, shown, display, written, html>>

\* line 68
WriteHtml ==
    /\ At("write_html")
    /\ written' = TRUE
    /\ html' = Render(vuln_plot)
    /\ Continue
    /\ UNCHANGED <<csv, fileExists, vulnerable, vuln_filter, pivot_vuln_filter,
                   str_item_counts, vuln_plot, shown, display>>

\* line 68, output/python_bar_chart.html cannot be written
WriteHtmlFails ==
    /\ At("write_html")
    /\ Raise
    /\ UNCHANGED <<csv, fileExists, vulnerable, vuln_filter, pivot_vuln_filter,
                   str_item_counts, vuln_plot, shown, display, written, html>>

Next ==
    \/ ReadCsv \/ ReadCsvFails
    \/ Filter \/ FilterFails
    \/ Aggregate \/ AggregateFails
    \/ Labels \/ Bar \/ Layout \/ Text \/ CategoryOrder \/ Colours
    \/ Show \/ ShowFails
    \/ WriteHtml \/ WriteHtmlFails

Spec == Init /\ [][Next]_vars

\* ------------------------------------------------------------- properties
StmtIndex(stmt) == CHOOSE i \in DOMAIN Statements : Statements[i] = stmt

\* the statement has run to its end
Ran(stmt) == pc > StmtIndex(stmt)

\* number of rows of the year-filtered frame with continent c
RowsOfContinent(c) ==
    Cardinality({i \in DOMAIN vuln_filter.rows :
                    vuln_filter.rows[i].continent = c})

RECURSIVE SumCounts(_)
SumCounts(frame) ==
    IF frame = <<>> THEN 0
    ELSE frame[Len(frame)].count + SumCounts(SubSeq(frame, 1, Len(frame) - 1))

\* position of continent c in the aggregate
AggregateRank(c) ==
    CHOOSE k \in DOMAIN pivot_vuln_filter : pivot_vuln_filter[k].continent = c

\* the k-th largest count of the aggregate
KthLargest(k) ==
    CHOOSE v \in {pivot_vuln_filter[i].count : i \in DOMAIN pivot_vuln_filter} :
        /\ Cardinality({i \in DOMAIN pivot_vuln_filter :
                            pivot_vuln_filter[i].count > v}) < k
        /\ Cardinality({i \in DOMAIN pivot_vuln_filter :
                            pivot_vuln_filter[i].count >= v}) >= k

\* the input file is readable and has the three columns the script names
WellFormedInput == fileExists /\ ColumnNames \subseteq Range(csv.columns)

NoTargetYearRow == \A i \in DOMAIN csv.rows : csv.rows[i].year # TargetYear

\* C1: the highlighted bar's label is the number of 1997 rows of the
\* continent the bar represents, for every input.
C1_HighlightLabelIsOwnRowCount ==
    shown => \A k \in DOMAIN display :
                display[k].colour = HighlightColour
                    => display[k].text = Str(RowsOfContinent(display[k].continent))

\* C2: every bar of the chart carries the label of its own count.
C2_EveryLabelIsOwnCount ==
    shown => \A k \in DOMAIN display : display[k].text = Str(display[k].count)

\* C3: exactly one bar has the highlight colour, it is a bar of the largest
\* count, and every other bar is lightgrey.
C3_HighlightIsTheLargestBar ==
    shown =>
        \E h \in DOMAIN display :
            /\ display[h].colour = HighlightColour
            /\ \A k \in DOMAIN display : display[k].count <= display[h].count
            /\ \A k \in DOMAIN display \ {h} : display[k].colour = NeutralColour

\* C4: the aggregate has one row per continent present in the filtered
\* rows, and its count is the number of filtered rows of that continent,
\* rows with a missing country included.
C4_CountIsRowsOfContinent ==
    Ran("aggregate") =>
        /\ \A i \in DOMAIN vuln_filter.rows :
              vuln_filter.rows[i].continent # NaN =>
                 \E k \in DOMAIN pivot_vuln_filter :
                    pivot_vuln_filter[k].continent = vuln_filter.rows[i].continent
        /\ \A k \in DOMAIN pivot_vuln_filter :
              pivot_vuln_filter[k].count
                 = RowsOfContinent(pivot_vuln_filter[k].continent)

\* C5: the counts of the aggregate add up to the number of filtered rows.
C5_CountsSumToFilteredRows ==
    Ran("aggregate") => SumCounts(pivot_vuln_filter) = Len(vuln_filter.rows)

\* C6: the bars of the chart shown and of the chart written are
\* non-decreasing in count from the axis origin outwards.
C6_BarsAscending ==
    /\ shown => \A i, j \in DOMAIN display :
                    i < j => display[i].count <= display[j].count
    /\ written => \A i, j \in DOMAIN html :
                    i < j => html[i].count <= html[j].count

C6_Witness ==
    /\ shown /\ written
    /\ Len(display) >= 2
    /\ pivot_vuln_filter[1].count > pivot_vuln_filter[2].count
    /\ display[1].count < display[2].count

\* C7: with a readable input that has the three columns and no row of
\* 1997, no statement up to the chart's decoration raises, the aggregate
\* and the label list are empty, and the chart is shown and written with
\* zero bars; only show() or write_html() themselves can end the run.
C7_EmptyYearRunsThrough ==
    (WellFormedInput /\ NoTargetYearRow) =>
        /\ pc = Failed => err \in {"show", "write_html"}
        /\ Ran("aggregate") => pivot_vuln_filter = <<>>
        /\ Ran("labels") => str_item_counts = <<>>
        /\ shown => display = <<>>
        /\ written => html = <<>>
        /\ pc = Done => shown /\ written

C7_Witness ==
    /\ WellFormedInput /\ NoTargetYearRow
    /\ csv.rows # <<>>
    /\ pc = Done /\ shown /\ written /\ display = <<>>

\* C8: write_html is attempted only after show has returned; a failed
\* write leaves the chart shown and not written; a failure of any earlier
\* statement leaves it neither shown nor written.
C8_WriteOnlyAfterShow ==
    /\ At("write_html") => shown
    /\ written => shown
    /\ (pc = Failed /\ err = "write_html") => shown /\ ~written
    /\ (pc = Failed /\ err # "write_html") => ~shown /\ ~written

C8_Witness == pc = Failed /\ err = "write_html" /\ shown /\ ~written

\* C9: when the second column is the continent column and no continent or
\* country cell is missing, the label list has one entry per aggregate row
\* and its k-th entry is the k-th largest count; the trace keeps the
\* aggregate's order (continents ascending), so its k-th bar is labelled
\* with the k-th largest count, and all labels are the bars' own counts
\* exactly when the counts are non-increasing along the aggregate.
C9_LabelsAreCountsLargestFirst ==
    ( /\ Ran("text")
      /\ csv.columns[2] = "continent"
      /\ \A i \in DOMAIN csv.rows :
            csv.rows[i].continent # NaN /\ csv.rows[i].country # NaN )
    => LET bars == IF vuln_plot.data = <<>> THEN <<>>
                   ELSE TraceBars(vuln_plot.data[1])
       IN /\ Len(str_item_counts) = Len(pivot_vuln_filter)
          /\ Len(bars) = Len(pivot_vuln_filter)
          /\ \A k \in DOMAIN str_item_counts :
                str_item_counts[k] = Str(KthLargest(k))
          /\ \A i, j \in DOMAIN bars :
                i < j => bars[i].continent < bars[j].continent
          /\ \A k \in DOMAIN bars :
                /\ bars[k].continent = pivot_vuln_filter[k].continent
                /\ bars[k].count = pivot_vuln_filter[k].count
                /\ bars[k].text = Str(KthLargest(k))
          /\ (\A k \in DOMAIN bars : bars[k].text = Str(bars[k].count))
                <=> (\A i, j \in DOMAIN pivot_vuln_filter :
                        i < j => pivot_vuln_filter[i].count
                                    >= pivot_vuln_filter[j].count)

C9_Witness ==
    /\ Ran("text")
    /\ csv.columns[2] = "continent"
    /\ \A i \in DOMAIN csv.rows :
          csv.rows[i].continent # NaN /\ csv.rows[i].country # NaN
    /\ Len(pivot_vuln_filter) >= 2
    /\ pivot_vuln_filter[1].count < pivot_vuln_filter[2].count
    /\ vuln_plot.data[1].text[1] = Str(pivot_vuln_filter[2].count)

====
